---- MODULE Spec2Model ----
(***************************************************************************)
(* WinRunner process supervision: ProcessManager (process_manager.py)      *)
(* driven by worker threads and the monitor thread of WinRunnerGUI         *)
(* (gui.py).  ProcessManager takes no lock, so every access to a shared    *)
(* ProcessInfo field and every OS call is one step of the calling thread.  *)
(***************************************************************************)
EXTENDS Integers, Sequences, FiniteSets, TLC

\* ---------------------------------------------------------------- bounds
MaxChildren == 2
MaxCalls == 2
MaxSeqCalls == 4
MaxTicks == 1
MaxFaultCalls == 3
MaxGuiCalls == 2
MaxGuiTicks == 2
MaxReloads == 1

\* ------------------------------------------------------------- universes
Names == {"a", "b"}
Callers == {"c1", "c2"}
SeqCallers == {"c1"}
Poller == "p"
Poller2 == "q"
Pollers == {Poller, Poller2}
Main == "m"
Threads == Callers \cup Pollers \cup {Main}
Programs == <<"a", "b">>

None == 0

ChildIds == 1..MaxChildren
ObjIds == 1..(Len(Programs) * (MaxReloads + 1))

VARIABLES
    processes,   \* ProcessManager.processes: name -> ProcessInfo object (None: no key)
    order,       \* insertion order of the keys of ProcessManager.processes
    infos,       \* the ProcessInfo objects: process, pid, is_running, start_time
    nobj,        \* ProcessInfo objects constructed so far
    children,    \* the OS child processes and the Popen object of each
    nchild,      \* children spawned so far
    clock,       \* time.time()
    nt,          \* os.name == 'nt'
    th,          \* each thread: position, arguments and locals of its call
    exitEvents,  \* per child, the "終了しました (終了コード: ..)" records logged
    monitoring,  \* WinRunnerGUI.monitoring: _load_config has started the monitor
    calls,       \* calls the window has issued so far
    ticks,       \* ticks the monitor threads have begun so far
    phase,       \* the main thread: in _load_config, in mainloop, in _on_closing, gone
    monitors,    \* each monitor thread: unstarted, running, stopped (_stop_monitoring
                 \* has returned and the thread still lives), exited
    old_processes, \* processes of the ProcessManager that _load_config replaced
    reloads,     \* _reload_config calls so far
    closeIdx     \* position of the loop of _on_closing over self.processes

\* the variables of WinRunnerGUI that ProcessManager never touches
guiv == <<phase, monitors, old_processes, reloads, closeIdx>>

vars == <<processes, order, infos, nobj, children, nchild, clock, nt, th, exitEvents,
          monitoring, calls, ticks, phase, monitors, old_processes, reloads, closeIdx>>

\* ProcessInfo(name=...) as the dataclass constructs it
NewProcessInfo == [process |-> None, pid |-> None, is_running |-> FALSE, start_time |-> None]

\* a slot of the process table no Popen has filled yet
NoChild == [st |-> "unborn", name |-> "", ign |-> FALSE, sig |-> "none"]

\* a child that has ended: it ignores nothing and no signal is pending
Ended(c) == [children EXCEPT ![c].st = "dead", ![c].ign = FALSE, ![c].sig = "none"]

\* Popen.pid of the child behind handle c
PidOf(c) == 100 + c

\* a thread outside any call
IdleT == [pc |-> "idle", op |-> "none", name |-> "", pi |-> None, proc |-> None,
          ret |-> "-", path |-> "-", ir |-> "-", e0 |-> NewProcessInfo, sent |-> FALSE,
          spawned |-> FALSE, probed |-> FALSE, idx |-> 0]

Init ==
    /\ processes = [n \in Names |-> None]
    /\ order = <<>>
    /\ infos = [o \in ObjIds |-> NewProcessInfo]
    /\ nobj = 0
    /\ children = [c \in ChildIds |-> NoChild]
    /\ nchild = 0
    /\ clock = 1
    /\ nt \in BOOLEAN
    /\ th = [t \in Threads |-> IdleT]
    /\ exitEvents = [c \in ChildIds |-> 0]
    /\ monitoring = FALSE
    /\ calls = 0
    /\ ticks = 0
    /\ phase = "load"
    /\ monitors = [p \in Pollers |-> "unstarted"]
    /\ old_processes = [n \in Names |-> None]
    /\ reloads = 0
    /\ closeIdx = 0

\* --------------------------------------------------------------- helpers
Registered == {n \in Names : processes[n] # None}
Alive(c) == children[c].st = "alive"
Dead(c) == children[c].st = "dead"
LiveOf(n) == {c \in ChildIds : Alive(c) /\ children[c].name = n}
InSeq(n, s) == \E i \in 1..Len(s) : s[i] = n

\* the entry a name maps to (NewProcessInfo stands in for "no key")
EntryOf(n) == IF processes[n] = None THEN NewProcessInfo ELSE infos[processes[n]]
Stopped(e) == e.process = None /\ e.pid = None /\ e.is_running = FALSE

\* a call returns: the thread waits at "done" with the returned value
Done(t, v, p) == [th EXCEPT ![t].pc = "done", ![t].ret = v, ![t].path = p]

\* ------------------------------------------------- add_program (register)
\* _create_program_list registers the programs of the configuration in their
\* order (a prefix of Programs: the configuration may list fewer), in
\* _load_config and before _start_monitoring
add_program(n) ==
    /\ phase = "load" /\ ~monitoring
    /\ Len(order) < Len(Programs) /\ n = Programs[Len(order) + 1]
    /\ nobj' = nobj + 1
    /\ processes' = [processes EXCEPT ![n] = nobj + 1]
    /\ infos' = [infos EXCEPT ![nobj + 1] = NewProcessInfo]
    /\ order' = IF InSeq(n, order) THEN order ELSE Append(order, n)
    /\ UNCHANGED <<guiv, children, nchild, clock, nt, th, exitEvents, monitoring, calls, ticks>>

\* the monitor thread _start_monitoring creates: the first not yet used
NextMonitor == IF monitors[Poller] = "unstarted" THEN Poller ELSE Poller2

\* _load_config ends: _start_monitoring sets the flag and starts a new monitor
\* thread, and the window takes commands
StartMonitoring ==
    /\ phase = "load" /\ ~monitoring
    /\ monitors[NextMonitor] = "unstarted"
    /\ monitoring' = TRUE
    /\ phase' = "run"
    /\ monitors' = [monitors EXCEPT ![NextMonitor] = "running"]
    /\ UNCHANGED <<processes, order, infos, nobj, children, nchild, clock, nt, th, exitEvents,
                   calls, ticks, old_processes, reloads, closeIdx>>

\* the executable of program n lies in its working directory (a's does; b's is
\* only on the search path, so starting b runs the probe)
ExeLocal(n) == n = "a"

\* ------------------------------------------------------ the child processes
\* a running child ends by itself
ChildExit(c) ==
    /\ Alive(c)
    /\ children' = Ended(c)
    /\ UNCHANGED <<guiv, processes, order, infos, nobj, nchild, clock, nt, th, exitEvents, monitoring, calls, ticks>>

\* a child that honours the terminate request ends because of it
ChildTerminated(c) ==
    /\ Alive(c) /\ children[c].sig = "term" /\ ~children[c].ign
    /\ children' = Ended(c)
    /\ UNCHANGED <<guiv, processes, order, infos, nobj, nchild, clock, nt, th, exitEvents, monitoring, calls, ticks>>

\* a killed child ends whatever it does
ChildKilled(c) ==
    /\ Alive(c) /\ children[c].sig = "kill"
    /\ children' = Ended(c)
    /\ UNCHANGED <<guiv, processes, order, infos, nobj, nchild, clock, nt, th, exitEvents, monitoring, calls, ticks>>

\* ------------------------------------------------------------- is_running
\* start_program without the "already running" return of lines 63-65
IrReturn_NoEarlyReturn(t, v, how) ==
    CASE th[t].op = "start" -> [th EXCEPT ![t].pc = "st_check", ![t].ir = how]
      [] th[t].op = "update_status" ->
           [th EXCEPT ![t].pc = "us_next", ![t].idx = th[t].idx + 1, ![t].ir = how]
      [] OTHER ->
           [th EXCEPT ![t].pc = "done", ![t].ret = IF v THEN "T" ELSE "F",
                      ![t].ir = how]

\* is_running returns v to whoever called it (start_program, update_status or
\* an outside caller); how it ended is kept in ir
IrReturn(t, v, how) ==
    CASE th[t].op = "start" ->
           IF v THEN [th EXCEPT ![t].pc = "done", ![t].ret = "T",
                                ![t].path = "already", ![t].ir = how]
                ELSE [th EXCEPT ![t].pc = "st_check", ![t].ir = how]
      [] th[t].op = "update_status" ->
           [th EXCEPT ![t].pc = "us_next", ![t].idx = th[t].idx + 1, ![t].ir = how]
      [] OTHER ->
           [th EXCEPT ![t].pc = "done", ![t].ret = IF v THEN "T" ELSE "F",
                      ![t].ir = how]

IsRunningCall(t, n) ==
    /\ monitoring
    /\ calls' = calls + 1
    /\ th[t].pc = "idle"
    /\ th' = [th EXCEPT ![t] = [IdleT EXCEPT !.pc = "ir_enter", !.op = "is_running",
                                             !.name = n, !.e0 = EntryOf(n)]]
    /\ UNCHANGED <<guiv, processes, order, infos, nobj, children, nchild, clock, nt, exitEvents, monitoring, ticks>>

\* line 156: the name has no key
IsRunningUnknown(t) ==
    /\ th[t].pc = "ir_enter"
    /\ processes[th[t].name] = None
    /\ th' = IrReturn(t, FALSE, "unknown")
    /\ UNCHANGED <<guiv, processes, order, infos, nobj, children, nchild, clock, nt, exitEvents, monitoring, calls, ticks>>

\* an entry without a handle reported as running
IsRunningNoHandle_Running(t) ==
    /\ th[t].pc = "ir_enter"
    /\ processes[th[t].name] # None
    /\ infos[processes[th[t].name]].process = None
    /\ th' = IrReturn(t, TRUE, "nohandle")
    /\ UNCHANGED <<guiv, processes, order, infos, nobj, children, nchild, clock, nt, exitEvents, monitoring, calls, ticks>>

\* line 161: no handle recorded
IsRunningNoHandle(t) ==
    /\ th[t].pc = "ir_enter"
    /\ processes[th[t].name] # None
    /\ infos[processes[th[t].name]].process = None
    /\ th' = IrReturn(t, FALSE, "nohandle")
    /\ UNCHANGED <<guiv, processes, order, infos, nobj, children, nchild, clock, nt, exitEvents, monitoring, calls, ticks>>

IsRunningEnter(t) ==
    /\ th[t].pc = "ir_enter"
    /\ processes[th[t].name] # None
    /\ infos[processes[th[t].name]].process # None
    /\ th' = [th EXCEPT ![t].pc = "ir_poll", ![t].pi = processes[th[t].name]]
    /\ UNCHANGED <<guiv, processes, order, infos, nobj, children, nchild, clock, nt, exitEvents, monitoring, calls, ticks>>

\* process_info.process was cleared by another thread after the None test:
\* None.poll() raises, the handler at line 199 logs and returns False
IsRunningPollNone(t) ==
    /\ th[t].pc = "ir_poll"
    /\ infos[th[t].pi].process = None
    /\ th' = IrReturn(t, FALSE, "error")
    /\ UNCHANGED <<guiv, processes, order, infos, nobj, children, nchild, clock, nt, exitEvents, monitoring, calls, ticks>>

\* is_running answering with the cached flag, the ended child unnoticed
IsRunningPollExited_Cached(t) ==
    /\ th[t].pc = "ir_poll"
    /\ infos[th[t].pi].process # None
    /\ Dead(infos[th[t].pi].process)
    /\ th' = IrReturn(t, infos[th[t].pi].is_running, "cached")
    /\ UNCHANGED <<guiv, processes, order, infos, nobj, children, nchild, clock, nt, exitEvents, monitoring, calls, ticks>>

\* poll() finds the child ended: the exit code is logged, the clearing follows
IsRunningPollExited(t) ==
    /\ th[t].pc = "ir_poll"
    /\ infos[th[t].pi].process # None
    /\ LET h == infos[th[t].pi].process IN
         /\ Dead(h)
         /\ exitEvents' = [exitEvents EXCEPT ![h] = exitEvents[h] + 1]
    /\ th' = [th EXCEPT ![t].pc = "ir_w1", ![t].ir = "exited"]
    /\ UNCHANGED <<guiv, processes, order, infos, nobj, children, nchild, clock, nt, monitoring, calls, ticks>>

\* poll() returns None; off Windows, or with no pid recorded, that is the answer
IsRunningPollAlive(t) ==
    /\ th[t].pc = "ir_poll"
    /\ infos[th[t].pi].process # None
    /\ Alive(infos[th[t].pi].process)
    /\ th' = IF nt /\ infos[th[t].pi].pid # None
               THEN [th EXCEPT ![t].pc = "ir_ps"]
               ELSE IrReturn(t, TRUE, "alive")
    /\ UNCHANGED <<guiv, processes, order, infos, nobj, children, nchild, clock, nt, exitEvents, monitoring, calls, ticks>>

\* psutil.Process(pid).is_running() on the recorded pid: the process is there
IsRunningPsutilAlive(t) ==
    /\ th[t].pc = "ir_ps"
    /\ infos[th[t].pi].pid # None
    /\ \E c \in ChildIds : PidOf(c) = infos[th[t].pi].pid /\ Alive(c)
    /\ th' = IrReturn(t, TRUE, "alive")
    /\ UNCHANGED <<guiv, processes, order, infos, nobj, children, nchild, clock, nt, exitEvents, monitoring, calls, ticks>>

\* the process ended since poll(): not running, or NoSuchProcess; both branches
\* log without an exit code and clear the entry
IsRunningPsutilGone(t) ==
    /\ th[t].pc = "ir_ps"
    /\ infos[th[t].pi].pid # None
    /\ \E c \in ChildIds : PidOf(c) = infos[th[t].pi].pid /\ Dead(c)
    /\ th' = [th EXCEPT ![t].pc = "ir_w1", ![t].ir = "gone"]
    /\ UNCHANGED <<guiv, processes, order, infos, nobj, children, nchild, clock, nt, exitEvents, monitoring, calls, ticks>>

\* the pid was cleared by another thread since line 177: psutil.Process(None)
\* is the supervisor's own process, which is running
IsRunningPsutilPidNone(t) ==
    /\ th[t].pc = "ir_ps"
    /\ infos[th[t].pi].pid = None
    /\ th' = IrReturn(t, TRUE, "self")
    /\ UNCHANGED <<guiv, processes, order, infos, nobj, children, nchild, clock, nt, exitEvents, monitoring, calls, ticks>>

\* process_info.is_running = False
IsRunningClear1(t) ==
    /\ th[t].pc = "ir_w1"
    /\ infos' = [infos EXCEPT ![th[t].pi].is_running = FALSE]
    /\ th' = [th EXCEPT ![t].pc = "ir_w2"]
    /\ UNCHANGED <<guiv, processes, order, nobj, children, nchild, clock, nt, exitEvents, monitoring, calls, ticks>>

\* process_info.process = None
IsRunningClear2(t) ==
    /\ th[t].pc = "ir_w2"
    /\ infos' = [infos EXCEPT ![th[t].pi].process = None]
    /\ th' = [th EXCEPT ![t].pc = "ir_w3"]
    /\ UNCHANGED <<guiv, processes, order, nobj, children, nchild, clock, nt, exitEvents, monitoring, calls, ticks>>

\* process_info.pid = None; return False
IsRunningClear3(t) ==
    /\ th[t].pc = "ir_w3"
    /\ infos' = [infos EXCEPT ![th[t].pi].pid = None]
    /\ th' = IrReturn(t, FALSE, th[t].ir)
    /\ UNCHANGED <<guiv, processes, order, nobj, children, nchild, clock, nt, exitEvents, monitoring, calls, ticks>>

\* ---------------------------------------------------------- start_program
\* a worker thread of _start_program enters start_program(program)
StartCall(t, n) ==
    /\ monitoring
    /\ calls' = calls + 1
    /\ th[t].pc = "idle"
    /\ th' = [th EXCEPT ![t] = [IdleT EXCEPT !.pc = "ir_enter", !.op = "start",
                                             !.name = n, !.e0 = EntryOf(n)]]
    /\ UNCHANGED <<guiv, processes, order, infos, nobj, children, nchild, clock, nt, exitEvents, monitoring, ticks>>

\* the working directory tested after the executable, so the probe runs first
StartWdMissing_AfterProbe(t) ==
    /\ th[t].pc = "st_check"
    /\ th' = [Done(t, "F", "wd") EXCEPT ![t].probed = TRUE]
    /\ UNCHANGED <<guiv, processes, order, infos, nobj, children, nchild, clock, nt, exitEvents, monitoring, calls, ticks>>

\* line 68: the working directory does not exist
StartWdMissing(t) ==
    /\ th[t].pc = "st_check"
    /\ th' = Done(t, "F", "wd")
    /\ UNCHANGED <<guiv, processes, order, infos, nobj, children, nchild, clock, nt, exitEvents, monitoring, calls, ticks>>

\* lines 74-78: not in the working directory, and the probe of
\* _is_executable_in_path times out or finds no such file
StartExeMissing(t) ==
    /\ th[t].pc = "st_check"
    /\ ~ExeLocal(th[t].name)
    /\ th' = [Done(t, "F", "exe") EXCEPT ![t].probed = TRUE]
    /\ UNCHANGED <<guiv, processes, order, infos, nobj, children, nchild, clock, nt, exitEvents, monitoring, calls, ticks>>

\* the probe raises something _is_executable_in_path does not catch
\* (PermissionError): the handler at line 100 returns False
StartProbeRaises(t) ==
    /\ th[t].pc = "st_check"
    /\ ~ExeLocal(th[t].name)
    /\ th' = [Done(t, "F", "error") EXCEPT ![t].probed = TRUE]
    /\ UNCHANGED <<guiv, processes, order, infos, nobj, children, nchild, clock, nt, exitEvents, monitoring, calls, ticks>>

\* line 82: Popen succeeds (the executable was found locally, or by the probe)
StartSpawn(t) ==
    /\ th[t].pc = "st_check"
    /\ nchild < MaxChildren
    /\ nchild' = nchild + 1
    /\ \E ign \in BOOLEAN :
         children' = [children EXCEPT ![nchild + 1] =
                        [NoChild EXCEPT !.st = "alive", !.name = th[t].name, !.ign = ign]]
    /\ th' = [th EXCEPT ![t].pc = "st_rec", ![t].proc = nchild + 1,
                        ![t].spawned = TRUE, ![t].probed = ~ExeLocal(th[t].name)]
    /\ UNCHANGED <<guiv, processes, order, infos, nobj, clock, nt, exitEvents, monitoring, calls, ticks>>

\* the running flag set before Popen is tried
StartSpawnFails_FlagFirst(t) ==
    /\ th[t].pc = "st_check"
    /\ processes[th[t].name] # None
    /\ infos' = [infos EXCEPT ![processes[th[t].name]].is_running = TRUE]
    /\ th' = [Done(t, "F", "spawnfail") EXCEPT ![t].probed = ~ExeLocal(th[t].name)]
    /\ UNCHANGED <<guiv, processes, order, nobj, children, nchild, clock, nt, exitEvents, monitoring, calls, ticks>>

\* line 82: Popen raises an OSError; the handler at line 100 returns False
StartSpawnFails(t) ==
    /\ th[t].pc = "st_check"
    /\ th' = [Done(t, "F", "spawnfail") EXCEPT ![t].probed = ~ExeLocal(th[t].name)]
    /\ UNCHANGED <<guiv, processes, order, infos, nobj, children, nchild, clock, nt, exitEvents, monitoring, calls, ticks>>

\* line 91: self.processes[name] raises KeyError, the handler returns False;
\* the child just spawned keeps running
StartRecordKeyError(t) ==
    /\ th[t].pc = "st_rec"
    /\ processes[th[t].name] = None
    /\ th' = Done(t, "F", "error")
    /\ UNCHANGED <<guiv, processes, order, infos, nobj, children, nchild, clock, nt, exitEvents, monitoring, calls, ticks>>

\* lines 91-92: process_info = self.processes[name]; process_info.process = process
StartRecord1(t) ==
    /\ th[t].pc = "st_rec"
    /\ processes[th[t].name] # None
    /\ infos' = [infos EXCEPT ![processes[th[t].name]].process = th[t].proc]
    /\ th' = [th EXCEPT ![t].pc = "st_w2", ![t].pi = processes[th[t].name]]
    /\ UNCHANGED <<guiv, processes, order, nobj, children, nchild, clock, nt, exitEvents, monitoring, calls, ticks>>

\* line 93: process_info.pid = process.pid
StartRecord2(t) ==
    /\ th[t].pc = "st_w2"
    /\ infos' = [infos EXCEPT ![th[t].pi].pid = PidOf(th[t].proc)]
    /\ th' = [th EXCEPT ![t].pc = "st_w3"]
    /\ UNCHANGED <<guiv, processes, order, nobj, children, nchild, clock, nt, exitEvents, monitoring, calls, ticks>>

\* line 94: process_info.is_running = True
StartRecord3(t) ==
    /\ th[t].pc = "st_w3"
    /\ infos' = [infos EXCEPT ![th[t].pi].is_running = TRUE]
    /\ th' = [th EXCEPT ![t].pc = "st_w4"]
    /\ UNCHANGED <<guiv, processes, order, nobj, children, nchild, clock, nt, exitEvents, monitoring, calls, ticks>>

\* lines 95-98: process_info.start_time = time.time(); return True
StartRecord4(t) ==
    /\ th[t].pc = "st_w4"
    /\ infos' = [infos EXCEPT ![th[t].pi].start_time = clock]
    /\ clock' = clock + 1
    /\ th' = Done(t, "T", "spawned")
    /\ UNCHANGED <<guiv, processes, order, nobj, children, nchild, nt, exitEvents, monitoring, calls, ticks>>

\* ----------------------------------------------------------- stop_program
StopCall(t, n) ==
    /\ monitoring
    /\ calls' = calls + 1
    /\ th[t].pc = "idle"
    /\ th' = [th EXCEPT ![t] = [IdleT EXCEPT !.pc = "sp_enter", !.op = "stop",
                                             !.name = n, !.e0 = EntryOf(n)]]
    /\ UNCHANGED <<guiv, processes, order, infos, nobj, children, nchild, clock, nt, exitEvents, monitoring, ticks>>

\* an unknown name treated like a program that is not running
StopUnknown_AsNotRunning(t) ==
    /\ th[t].pc = "sp_enter"
    /\ processes[th[t].name] = None
    /\ th' = Done(t, "T", "unknown")
    /\ UNCHANGED <<guiv, processes, order, infos, nobj, children, nchild, clock, nt, exitEvents, monitoring, calls, ticks>>

\* lines 114-116: no such key
StopUnknown(t) ==
    /\ th[t].pc = "sp_enter"
    /\ processes[th[t].name] = None
    /\ th' = Done(t, "F", "unknown")
    /\ UNCHANGED <<guiv, processes, order, infos, nobj, children, nchild, clock, nt, exitEvents, monitoring, calls, ticks>>

\* stopping a stopped program reported as a failure
StopNotRunning_Fails(t) ==
    /\ th[t].pc = "sp_enter"
    /\ processes[th[t].name] # None
    /\ LET e == infos[processes[th[t].name]] IN ~e.is_running \/ e.process = None
    /\ th' = [Done(t, "F", "notrunning") EXCEPT ![t].pi = processes[th[t].name]]
    /\ UNCHANGED <<guiv, processes, order, infos, nobj, children, nchild, clock, nt, exitEvents, monitoring, calls, ticks>>

\* lines 118-122: not running, nothing to do
StopNotRunning(t) ==
    /\ th[t].pc = "sp_enter"
    /\ processes[th[t].name] # None
    /\ LET e == infos[processes[th[t].name]] IN ~e.is_running \/ e.process = None
    /\ th' = [Done(t, "T", "notrunning") EXCEPT ![t].pi = processes[th[t].name]]
    /\ UNCHANGED <<guiv, processes, order, infos, nobj, children, nchild, clock, nt, exitEvents, monitoring, calls, ticks>>

StopEnter(t) ==
    /\ th[t].pc = "sp_enter"
    /\ processes[th[t].name] # None
    /\ LET e == infos[processes[th[t].name]] IN e.is_running /\ e.process # None
    /\ th' = [th EXCEPT ![t].pc = "sp_term", ![t].pi = processes[th[t].name]]
    /\ UNCHANGED <<guiv, processes, order, infos, nobj, children, nchild, clock, nt, exitEvents, monitoring, calls, ticks>>

\* process_info.process was cleared by another thread since line 120: the call
\* on None raises AttributeError, the handler at line 143 returns False
StopHandleGone(t) ==
    /\ th[t].pc \in {"sp_term", "sp_wait", "sp_kill", "sp_kwait"}
    /\ infos[th[t].pi].process = None
    /\ th' = Done(t, "F", "error")
    /\ UNCHANGED <<guiv, processes, order, infos, nobj, children, nchild, clock, nt, exitEvents, monitoring, calls, ticks>>

\* stop_program going for kill() at once, no terminate() and no grace period
StopTerminate_StraightToKill(t) ==
    /\ th[t].pc = "sp_term"
    /\ infos[th[t].pi].process # None
    /\ th' = [th EXCEPT ![t].pc = "sp_kill"]
    /\ UNCHANGED <<guiv, processes, order, infos, nobj, children, nchild, clock, nt, exitEvents, monitoring, calls, ticks>>

\* line 126: terminate(); a child that has ended already gets no signal
StopTerminate(t) ==
    /\ th[t].pc = "sp_term"
    /\ infos[th[t].pi].process # None
    /\ LET h == infos[th[t].pi].process IN
         IF Alive(h)
           THEN /\ children' = [children EXCEPT ![h].sig = "term"]
                /\ th' = [th EXCEPT ![t].pc = "sp_wait", ![t].sent = TRUE]
           ELSE /\ children' = children
                /\ th' = [th EXCEPT ![t].pc = "sp_wait"]
    /\ UNCHANGED <<guiv, processes, order, infos, nobj, nchild, clock, nt, exitEvents, monitoring, calls, ticks>>

\* the handler at line 143 forcing the entry to stopped
StopTerminateFails_Clears(t) ==
    /\ th[t].pc = "sp_term"
    /\ infos[th[t].pi].process # None
    /\ Alive(infos[th[t].pi].process)
    /\ infos' = [infos EXCEPT ![th[t].pi] = NewProcessInfo]
    /\ th' = Done(t, "F", "oserror")
    /\ UNCHANGED <<guiv, processes, order, nobj, children, nchild, clock, nt, exitEvents, monitoring, calls, ticks>>

\* line 126: terminate() raises an OS error (PermissionError) on the running
\* child; the handler at line 143 returns False
StopTerminateFails(t) ==
    /\ th[t].pc = "sp_term"
    /\ infos[th[t].pi].process # None
    /\ Alive(infos[th[t].pi].process)
    /\ th' = Done(t, "F", "oserror")
    /\ UNCHANGED <<guiv, processes, order, infos, nobj, children, nchild, clock, nt, exitEvents, monitoring, calls, ticks>>

\* line 127: wait(timeout=3) returns, the child has ended in time
StopWaitExited(t) ==
    /\ th[t].pc = "sp_wait"
    /\ infos[th[t].pi].process # None
    /\ Dead(infos[th[t].pi].process)
    /\ th' = [th EXCEPT ![t].pc = "sp_c1", ![t].path = "graceful"]
    /\ UNCHANGED <<guiv, processes, order, infos, nobj, children, nchild, clock, nt, exitEvents, monitoring, calls, ticks>>

\* line 129: the 3 seconds pass with the child still running
StopWaitTimeout(t) ==
    /\ th[t].pc = "sp_wait"
    /\ infos[th[t].pi].process # None
    /\ Alive(infos[th[t].pi].process)
    /\ th' = [th EXCEPT ![t].pc = "sp_kill"]
    /\ UNCHANGED <<guiv, processes, order, infos, nobj, children, nchild, clock, nt, exitEvents, monitoring, calls, ticks>>

\* terminate() sent a second time where kill() belongs
StopKill_TerminateAgain(t) ==
    /\ th[t].pc = "sp_kill"
    /\ infos[th[t].pi].process # None
    /\ LET h == infos[th[t].pi].process IN
         IF Alive(h)
           THEN /\ children' = [children EXCEPT ![h].sig = "term"]
                /\ th' = [th EXCEPT ![t].pc = "sp_kwait", ![t].sent = TRUE]
           ELSE /\ children' = children
                /\ th' = [th EXCEPT ![t].pc = "sp_kwait"]
    /\ UNCHANGED <<guiv, processes, order, infos, nobj, nchild, clock, nt, exitEvents, monitoring, calls, ticks>>

\* line 131: kill()
StopKill(t) ==
    /\ th[t].pc = "sp_kill"
    /\ infos[th[t].pi].process # None
    /\ LET h == infos[th[t].pi].process IN
         IF Alive(h)
           THEN /\ children' = [children EXCEPT ![h].sig = "kill"]
                /\ th' = [th EXCEPT ![t].pc = "sp_kwait", ![t].sent = TRUE]
           ELSE /\ children' = children
                /\ th' = [th EXCEPT ![t].pc = "sp_kwait"]
    /\ UNCHANGED <<guiv, processes, order, infos, nobj, nchild, clock, nt, exitEvents, monitoring, calls, ticks>>

\* line 132: wait() blocks until the child has ended
StopKillWait(t) ==
    /\ th[t].pc = "sp_kwait"
    /\ infos[th[t].pi].process # None
    /\ Dead(infos[th[t].pi].process)
    /\ th' = [th EXCEPT ![t].pc = "sp_c1", ![t].path = "forced"]
    /\ UNCHANGED <<guiv, processes, order, infos, nobj, children, nchild, clock, nt, exitEvents, monitoring, calls, ticks>>

\* line 136: process_info.process = None
StopClear1(t) ==
    /\ th[t].pc = "sp_c1"
    /\ infos' = [infos EXCEPT ![th[t].pi].process = None]
    /\ th' = [th EXCEPT ![t].pc = "sp_c2"]
    /\ UNCHANGED <<guiv, processes, order, nobj, children, nchild, clock, nt, exitEvents, monitoring, calls, ticks>>

\* line 137: process_info.pid = None
StopClear2(t) ==
    /\ th[t].pc = "sp_c2"
    /\ infos' = [infos EXCEPT ![th[t].pi].pid = None]
    /\ th' = [th EXCEPT ![t].pc = "sp_c3"]
    /\ UNCHANGED <<guiv, processes, order, nobj, children, nchild, clock, nt, exitEvents, monitoring, calls, ticks>>

\* line 138: process_info.is_running = False
StopClear3(t) ==
    /\ th[t].pc = "sp_c3"
    /\ infos' = [infos EXCEPT ![th[t].pi].is_running = FALSE]
    /\ th' = [th EXCEPT ![t].pc = "sp_c4"]
    /\ UNCHANGED <<guiv, processes, order, nobj, children, nchild, clock, nt, exitEvents, monitoring, calls, ticks>>

\* stop_program clearing what is_running clears, start_time left behind
StopClear4_KeepsStartTime(t) ==
    /\ th[t].pc = "sp_c4"
    /\ th' = Done(t, "T", th[t].path)
    /\ UNCHANGED <<guiv, processes, order, infos, nobj, children, nchild, clock, nt, exitEvents, monitoring, calls, ticks>>

\* lines 139-141: process_info.start_time = None; return True
StopClear4(t) ==
    /\ th[t].pc = "sp_c4"
    /\ infos' = [infos EXCEPT ![th[t].pi].start_time = None]
    /\ th' = Done(t, "T", th[t].path)
    /\ UNCHANGED <<guiv, processes, order, nobj, children, nchild, clock, nt, exitEvents, monitoring, calls, ticks>>

\* the caller takes the returned value and is free for its next call
Finish(t) ==
    /\ th[t].pc = "done"
    /\ th' = [th EXCEPT ![t] = IdleT]
    /\ UNCHANGED <<guiv, processes, order, infos, nobj, children, nchild, clock, nt, exitEvents, monitoring, calls, ticks>>

\* ------------------------------------------- update_status (monitor thread)
\* a monitor thread that has been started and has not returned from monitor()
MonitorLives(p) == monitors[p] \in {"running", "stopped"}

\* a tick of monitor(): the thread wakes, self.monitoring is True, and
\* update_status starts iterating over self.processes
UpdateStatusBegin(p) ==
    /\ MonitorLives(p)
    /\ monitoring
    /\ ticks' = ticks + 1
    /\ th[p].pc = "idle"
    /\ th' = [th EXCEPT ![p] = [IdleT EXCEPT !.pc = "us_next", !.op = "update_status",
                                             !.idx = 1]]
    /\ UNCHANGED <<guiv, processes, order, infos, nobj, children, nchild, clock, nt, exitEvents, monitoring, calls>>

\* the next key of the dict: is_running(program_name)
UpdateStatusNext(p) ==
    /\ th[p].pc = "us_next"
    /\ th[p].idx <= Len(order)
    /\ th' = [th EXCEPT ![p].pc = "ir_enter",
                        ![p].name = order[th[p].idx],
                        ![p].pi = None]
    /\ UNCHANGED <<guiv, processes, order, infos, nobj, children, nchild, clock, nt, exitEvents, monitoring, calls, ticks>>

\* the loop is exhausted; monitor() hands _update_all_status to the main loop
\* and sleeps until the next tick
UpdateStatusEnd(p) ==
    /\ th[p].pc = "us_next"
    /\ th[p].idx > Len(order)
    /\ th' = [th EXCEPT ![p] = IdleT]
    /\ UNCHANGED <<guiv, processes, order, infos, nobj, children, nchild, clock, nt, exitEvents, monitoring, calls, ticks>>

\* ------------------------------------------------------- the whole program
Next ==
    \/ \E n \in Names : add_program(n)
    \/ StartMonitoring
    \/ \E c \in ChildIds : ChildExit(c)
    \/ \E c \in ChildIds : ChildTerminated(c)
    \/ \E c \in ChildIds : ChildKilled(c)
    \/ \E t \in Callers, n \in Names : calls < MaxCalls /\ IsRunningCall(t, n)
    \/ \E t \in Callers, n \in Names : calls < MaxCalls /\ StartCall(t, n)
    \/ \E t \in Callers, n \in Names : calls < MaxCalls /\ StopCall(t, n)
    \/ \E t \in Callers \cup {Poller} : IsRunningUnknown(t)
    \/ \E t \in Callers \cup {Poller} : IsRunningNoHandle(t)
    \/ \E t \in Callers \cup {Poller} : IsRunningEnter(t)
    \/ \E t \in Callers \cup {Poller} : IsRunningPollNone(t)
    \/ \E t \in Callers \cup {Poller} : IsRunningPollExited(t)
    \/ \E t \in Callers \cup {Poller} : IsRunningPollAlive(t)
    \/ \E t \in Callers \cup {Poller} : IsRunningPsutilAlive(t)
    \/ \E t \in Callers \cup {Poller} : IsRunningPsutilGone(t)
    \/ \E t \in Callers \cup {Poller} : IsRunningPsutilPidNone(t)
    \/ \E t \in Callers \cup {Poller} : IsRunningClear1(t)
    \/ \E t \in Callers \cup {Poller} : IsRunningClear2(t)
    \/ \E t \in Callers \cup {Poller} : IsRunningClear3(t)
    \/ \E t \in Callers : StartWdMissing(t)
    \/ \E t \in Callers : StartExeMissing(t)
    \/ \E t \in Callers : StartProbeRaises(t)
    \/ \E t \in Callers : StartSpawn(t)
    \/ \E t \in Callers : StartSpawnFails(t)
    \/ \E t \in Callers : StartRecordKeyError(t)
    \/ \E t \in Callers : StartRecord1(t)
    \/ \E t \in Callers : StartRecord2(t)
    \/ \E t \in Callers : StartRecord3(t)
    \/ \E t \in Callers : StartRecord4(t)
    \/ \E t \in Callers : StopUnknown(t)
    \/ \E t \in Callers : StopNotRunning(t)
    \/ \E t \in Callers : StopEnter(t)
    \/ \E t \in Callers : StopHandleGone(t)
    \/ \E t \in Callers : StopTerminate(t)
    \/ \E t \in Callers : StopTerminateFails(t)
    \/ \E t \in Callers : StopWaitExited(t)
    \/ \E t \in Callers : StopWaitTimeout(t)
    \/ \E t \in Callers : StopKill(t)
    \/ \E t \in Callers : StopKillWait(t)
    \/ \E t \in Callers : StopClear1(t)
    \/ \E t \in Callers : StopClear2(t)
    \/ \E t \in Callers : StopClear3(t)
    \/ \E t \in Callers : StopClear4(t)
    \/ \E t \in Callers : Finish(t)
    \/ ticks < MaxTicks /\ UpdateStatusBegin(Poller)
    \/ UpdateStatusNext(Poller)
    \/ UpdateStatusEnd(Poller)

Spec == Init /\ [][Next]_vars

\* one caller at a time and no monitor thread: the operations of
\* ProcessManager called in sequence, the children living their own lives
NextSeq ==
    \/ \E n \in Names : add_program(n)
    \/ StartMonitoring
    \/ \E c \in ChildIds : ChildExit(c)
    \/ \E c \in ChildIds : ChildTerminated(c)
    \/ \E c \in ChildIds : ChildKilled(c)
    \/ \E t \in SeqCallers, n \in Names : calls < MaxSeqCalls /\ IsRunningCall(t, n)
    \/ \E t \in SeqCallers, n \in Names : calls < MaxSeqCalls /\ StartCall(t, n)
    \/ \E t \in SeqCallers, n \in Names : calls < MaxSeqCalls /\ StopCall(t, n)
    \/ \E t \in SeqCallers : IsRunningUnknown(t)
    \/ \E t \in SeqCallers : IsRunningNoHandle(t)
    \/ \E t \in SeqCallers : IsRunningEnter(t)
    \/ \E t \in SeqCallers : IsRunningPollExited(t)
    \/ \E t \in SeqCallers : IsRunningPollAlive(t)
    \/ \E t \in SeqCallers : IsRunningPsutilAlive(t)
    \/ \E t \in SeqCallers : IsRunningPsutilGone(t)
    \/ \E t \in SeqCallers : IsRunningClear1(t)
    \/ \E t \in SeqCallers : IsRunningClear2(t)
    \/ \E t \in SeqCallers : IsRunningClear3(t)
    \/ \E t \in SeqCallers : StartWdMissing(t)
    \/ \E t \in SeqCallers : StartExeMissing(t)
    \/ \E t \in SeqCallers : StartProbeRaises(t)
    \/ \E t \in SeqCallers : StartSpawn(t)
    \/ \E t \in SeqCallers : StartSpawnFails(t)
    \/ \E t \in SeqCallers : StartRecordKeyError(t)
    \/ \E t \in SeqCallers : StartRecord1(t)
    \/ \E t \in SeqCallers : StartRecord2(t)
    \/ \E t \in SeqCallers : StartRecord3(t)
    \/ \E t \in SeqCallers : StartRecord4(t)
    \/ \E t \in SeqCallers : StopUnknown(t)
    \/ \E t \in SeqCallers : StopNotRunning(t)
    \/ \E t \in SeqCallers : StopEnter(t)
    \/ \E t \in SeqCallers : StopTerminate(t)
    \/ \E t \in SeqCallers : StopTerminateFails(t)
    \/ \E t \in SeqCallers : StopWaitExited(t)
    \/ \E t \in SeqCallers : StopWaitTimeout(t)
    \/ \E t \in SeqCallers : StopKill(t)
    \/ \E t \in SeqCallers : StopKillWait(t)
    \/ \E t \in SeqCallers : StopClear1(t)
    \/ \E t \in SeqCallers : StopClear2(t)
    \/ \E t \in SeqCallers : StopClear3(t)
    \/ \E t \in SeqCallers : StopClear4(t)
    \/ \E t \in SeqCallers : Finish(t)

SeqSpec == Init /\ [][NextSeq]_vars

\* the steps a thread takes inside start_program, stop_program or is_running
\* once it has been called
InCall(t) ==
    \/ IsRunningUnknown(t) \/ IsRunningNoHandle(t) \/ IsRunningEnter(t)
    \/ IsRunningPollExited(t) \/ IsRunningPollAlive(t)
    \/ IsRunningPsutilAlive(t) \/ IsRunningPsutilGone(t)
    \/ IsRunningClear1(t) \/ IsRunningClear2(t) \/ IsRunningClear3(t)
    \/ StartWdMissing(t) \/ StartExeMissing(t) \/ StartProbeRaises(t)
    \/ StartSpawn(t) \/ StartSpawnFails(t) \/ StartRecordKeyError(t)
    \/ StartRecord1(t) \/ StartRecord2(t) \/ StartRecord3(t) \/ StartRecord4(t)
    \/ StopUnknown(t) \/ StopNotRunning(t) \/ StopEnter(t)
    \/ StopTerminate(t) \/ StopTerminateFails(t)
    \/ StopWaitExited(t) \/ StopWaitTimeout(t) \/ StopKill(t) \/ StopKillWait(t)
    \/ StopClear1(t) \/ StopClear2(t) \/ StopClear3(t) \/ StopClear4(t)

\* the operating system keeps scheduling a thread that can run, and a process
\* that was sent the kill signal ends
FairSeqSpec ==
    /\ SeqSpec
    /\ \A t \in SeqCallers : WF_vars(InCall(t))
    /\ \A c \in ChildIds : WF_vars(ChildKilled(c))

\* ------------------------------------- a liveness check that raises an error
\* the error of the liveness check reaching the caller of is_running
IsRunningPollRaises_Propagates(t) ==
    /\ th[t].pc = "ir_poll"
    /\ infos[th[t].pi].process # None
    /\ th' = [th EXCEPT ![t].pc = "done", ![t].ret = "raise", ![t].ir = "raised"]
    /\ UNCHANGED <<guiv, processes, order, infos, nobj, children, nchild, clock, nt, exitEvents, monitoring, calls, ticks>>

\* line 167: poll() raises an OS error (the wait on the process handle fails);
\* the handler at line 199 logs it and returns False, the entry untouched
IsRunningPollRaises(t) ==
    /\ th[t].pc = "ir_poll"
    /\ infos[th[t].pi].process # None
    /\ th' = IrReturn(t, FALSE, "raised")
    /\ UNCHANGED <<guiv, processes, order, infos, nobj, children, nchild, clock, nt, exitEvents, monitoring, calls, ticks>>

\* lines 179-181: psutil raises something other than NoSuchProcess
\* (AccessDenied); the same handler returns False, the entry untouched
IsRunningPsutilRaises(t) ==
    /\ th[t].pc = "ir_ps"
    /\ infos[th[t].pi].pid # None
    /\ th' = IrReturn(t, FALSE, "raised")
    /\ UNCHANGED <<guiv, processes, order, infos, nobj, children, nchild, clock, nt, exitEvents, monitoring, calls, ticks>>

\* no thread is inside the ProcessManager
Quiet == \A t \in Threads : th[t].pc = "idle"

\* the callers of is_running when calls and ticks take turns
FaultCheckers == SeqCallers \cup {Poller}

\* one call or one tick of the monitor at a time, the liveness checks of
\* is_running free to raise
NextFault ==
    \/ \E n \in Names : add_program(n)
    \/ StartMonitoring
    \/ \E c \in ChildIds : ChildExit(c)
    \/ \E c \in ChildIds : ChildTerminated(c)
    \/ \E c \in ChildIds : ChildKilled(c)
    \/ \E t \in SeqCallers, n \in Names : Quiet /\ calls < MaxFaultCalls /\ IsRunningCall(t, n)
    \/ \E t \in SeqCallers, n \in Names : Quiet /\ calls < MaxFaultCalls /\ StartCall(t, n)
    \/ \E t \in SeqCallers, n \in Names : Quiet /\ calls < MaxFaultCalls /\ StopCall(t, n)
    \/ \E t \in FaultCheckers : IsRunningUnknown(t)
    \/ \E t \in FaultCheckers : IsRunningNoHandle(t)
    \/ \E t \in FaultCheckers : IsRunningEnter(t)
    \/ \E t \in FaultCheckers : IsRunningPollRaises(t)
    \/ \E t \in FaultCheckers : IsRunningPollExited(t)
    \/ \E t \in FaultCheckers : IsRunningPollAlive(t)
    \/ \E t \in FaultCheckers : IsRunningPsutilRaises(t)
    \/ \E t \in FaultCheckers : IsRunningPsutilAlive(t)
    \/ \E t \in FaultCheckers : IsRunningPsutilGone(t)
    \/ \E t \in FaultCheckers : IsRunningClear1(t)
    \/ \E t \in FaultCheckers : IsRunningClear2(t)
    \/ \E t \in FaultCheckers : IsRunningClear3(t)
    \/ \E t \in SeqCallers : StartWdMissing(t)
    \/ \E t \in SeqCallers : StartExeMissing(t)
    \/ \E t \in SeqCallers : StartProbeRaises(t)
    \/ \E t \in SeqCallers : StartSpawn(t)
    \/ \E t \in SeqCallers : StartSpawnFails(t)
    \/ \E t \in SeqCallers : StartRecordKeyError(t)
    \/ \E t \in SeqCallers : StartRecord1(t)
    \/ \E t \in SeqCallers : StartRecord2(t)
    \/ \E t \in SeqCallers : StartRecord3(t)
    \/ \E t \in SeqCallers : StartRecord4(t)
    \/ \E t \in SeqCallers : StopUnknown(t)
    \/ \E t \in SeqCallers : StopNotRunning(t)
    \/ \E t \in SeqCallers : StopEnter(t)
    \/ \E t \in SeqCallers : StopTerminate(t)
    \/ \E t \in SeqCallers : StopTerminateFails(t)
    \/ \E t \in SeqCallers : StopWaitExited(t)
    \/ \E t \in SeqCallers : StopWaitTimeout(t)
    \/ \E t \in SeqCallers : StopKill(t)
    \/ \E t \in SeqCallers : StopKillWait(t)
    \/ \E t \in SeqCallers : StopClear1(t)
    \/ \E t \in SeqCallers : StopClear2(t)
    \/ \E t \in SeqCallers : StopClear3(t)
    \/ \E t \in SeqCallers : StopClear4(t)
    \/ \E t \in SeqCallers : Finish(t)
    \/ Quiet /\ ticks < MaxTicks /\ UpdateStatusBegin(Poller)
    \/ UpdateStatusNext(Poller)
    \/ UpdateStatusEnd(Poller)

FaultSpec == Init /\ [][NextFault]_vars

\* ------------------------------------------- the window (WinRunnerGUI)
\* a monitor thread asleep in time.sleep wakes, finds self.monitoring False
\* and returns from monitor()
MonitorExit(p) ==
    /\ MonitorLives(p)
    /\ th[p].pc = "idle"
    /\ ~monitoring
    /\ monitors' = [monitors EXCEPT ![p] = "exited"]
    /\ UNCHANGED <<processes, order, infos, nobj, children, nchild, clock, nt, th, exitEvents, monitoring, calls, ticks,
                   phase, old_processes, reloads, closeIdx>>

\* _stop_monitoring: the flag is cleared and the monitor thread joined for at
\* most 1 second.  A tick in flight ends within the join, and the thread then
\* sleeps monitor_interval_seconds (2 by default), so the join returns with the
\* thread asleep in monitor(), or returned from it (MonitorExit)
StoppedMonitors ==
    [p \in Pollers |-> IF monitors[p] = "running" THEN "stopped" ELSE monitors[p]]

\* _reload_config, pressed while no thread is inside the ProcessManager:
\* _stop_monitoring, then _load_config replaces self.process_manager by a new
\* ProcessManager; the add_program calls and _start_monitoring follow
ReloadConfig ==
    /\ phase = "run"
    /\ reloads < MaxReloads
    /\ Quiet
    /\ reloads' = reloads + 1
    /\ monitoring' = FALSE
    /\ monitors' = StoppedMonitors
    /\ old_processes' = processes
    /\ processes' = [n \in Names |-> None]
    /\ order' = <<>>
    /\ phase' = "load"
    /\ UNCHANGED <<infos, nobj, children, nchild, clock, nt, th, exitEvents, calls, ticks, closeIdx>>

\* _on_closing, confirmed: _stop_monitoring, then the loop over self.processes
OnClosing ==
    /\ phase = "run"
    /\ Quiet
    /\ monitoring' = FALSE
    /\ monitors' = StoppedMonitors
    /\ phase' = "closing"
    /\ closeIdx' = 1
    /\ UNCHANGED <<processes, order, infos, nobj, children, nchild, clock, nt, th, exitEvents, calls, ticks,
                   old_processes, reloads>>

\* lines 288-289: the main thread calls stop_program on the next key
CloseStopNext ==
    /\ phase = "closing"
    /\ th[Main].pc = "idle"
    /\ closeIdx <= Len(order)
    /\ th' = [th EXCEPT ![Main] = [IdleT EXCEPT !.pc = "sp_enter", !.op = "stop",
                                                !.name = order[closeIdx],
                                                !.e0 = EntryOf(order[closeIdx])]]
    /\ UNCHANGED <<guiv, processes, order, infos, nobj, children, nchild, clock, nt, exitEvents, monitoring, calls, ticks>>

\* stop_program has returned (its value is dropped); on to the next key
CloseStopReturn ==
    /\ phase = "closing"
    /\ th[Main].pc = "done"
    /\ th' = [th EXCEPT ![Main] = IdleT]
    /\ closeIdx' = closeIdx + 1
    /\ UNCHANGED <<processes, order, infos, nobj, children, nchild, clock, nt, exitEvents, monitoring, calls, ticks,
                   phase, monitors, old_processes, reloads>>

\* line 290: root.destroy(); mainloop returns, the interpreter exits and takes
\* its daemon threads with it; the children are not its to take
CloseDestroy ==
    /\ phase = "closing"
    /\ th[Main].pc = "idle"
    /\ closeIdx > Len(order)
    /\ phase' = "closed"
    /\ UNCHANGED <<processes, order, infos, nobj, children, nchild, clock, nt, th, exitEvents, monitoring, calls, ticks,
                   monitors, old_processes, reloads, closeIdx>>

\* the threads of the window
Workers == SeqCallers
Stoppers == Workers \cup {Main}
Checkers == Workers \cup Pollers
Running == phase # "closed"

\* the life of the window: load, commands, ticks of its monitor threads,
\* reload and closing, each command and each tick begun while no other is in
\* flight (Spec has the overlaps of worker and monitor threads); the window
\* has a start and a stop button for the registered programs only
GuiNext ==
    \/ \E n \in Names : add_program(n)
    \/ StartMonitoring
    \/ ReloadConfig
    \/ OnClosing
    \/ CloseStopNext
    \/ CloseStopReturn
    \/ CloseDestroy
    \/ \E c \in ChildIds : ChildExit(c)
    \/ \E c \in ChildIds : ChildTerminated(c)
    \/ \E c \in ChildIds : ChildKilled(c)
    \/ \E t \in Workers, n \in Registered : Running /\ Quiet /\ calls < MaxGuiCalls /\ StartCall(t, n)
    \/ \E t \in Workers, n \in Registered : Running /\ Quiet /\ calls < MaxGuiCalls /\ StopCall(t, n)
    \/ \E p \in Pollers : Running /\ Quiet /\ ticks < MaxGuiTicks /\ UpdateStatusBegin(p)
    \/ \E p \in Pollers : Running /\ UpdateStatusNext(p)
    \/ \E p \in Pollers : Running /\ UpdateStatusEnd(p)
    \/ \E p \in Pollers : Running /\ MonitorExit(p)
    \/ \E t \in Checkers : Running /\ IsRunningNoHandle(t)
    \/ \E t \in Checkers : Running /\ IsRunningEnter(t)
    \/ \E t \in Checkers : Running /\ IsRunningPollExited(t)
    \/ \E t \in Checkers : Running /\ IsRunningPollAlive(t)
    \/ \E t \in Checkers : Running /\ IsRunningPsutilAlive(t)
    \/ \E t \in Checkers : Running /\ IsRunningPsutilGone(t)
    \/ \E t \in Checkers : Running /\ IsRunningClear1(t)
    \/ \E t \in Checkers : Running /\ IsRunningClear2(t)
    \/ \E t \in Checkers : Running /\ IsRunningClear3(t)
    \/ \E t \in Workers : Running /\ StartWdMissing(t)
    \/ \E t \in Workers : Running /\ StartExeMissing(t)
    \/ \E t \in Workers : Running /\ StartProbeRaises(t)
    \/ \E t \in Workers : Running /\ StartSpawn(t)
    \/ \E t \in Workers : Running /\ StartSpawnFails(t)
    \/ \E t \in Workers : Running /\ StartRecord1(t)
    \/ \E t \in Workers : Running /\ StartRecord2(t)
    \/ \E t \in Workers : Running /\ StartRecord3(t)
    \/ \E t \in Workers : Running /\ StartRecord4(t)
    \/ \E t \in Stoppers : Running /\ StopNotRunning(t)
    \/ \E t \in Stoppers : Running /\ StopEnter(t)
    \/ \E t \in Stoppers : Running /\ StopTerminate(t)
    \/ \E t \in Stoppers : Running /\ StopTerminateFails(t)
    \/ \E t \in Stoppers : Running /\ StopWaitExited(t)
    \/ \E t \in Stoppers : Running /\ StopWaitTimeout(t)
    \/ \E t \in Stoppers : Running /\ StopKill(t)
    \/ \E t \in Stoppers : Running /\ StopKillWait(t)
    \/ \E t \in Stoppers : Running /\ StopClear1(t)
    \/ \E t \in Stoppers : Running /\ StopClear2(t)
    \/ \E t \in Stoppers : Running /\ StopClear3(t)
    \/ \E t \in Stoppers : Running /\ StopClear4(t)
    \/ \E t \in Workers : Running /\ Finish(t)

GuiSpec == Init /\ [][GuiNext]_vars

\* ------------------------------------------------------------ the claims
\* a caller that has just returned from op
Returned(t, op) == th[t].pc = "done" /\ th[t].op = op

\* C1: at most one live child per registered name, whatever the interleaving of
\* the start_program calls of the worker threads and the monitor's refresh
C1_AtMostOneLivePerName ==
    \A n \in Registered : Cardinality(LiveOf(n)) <= 1

CallerOn(n) == \E u \in Callers : th[u].pc # "idle" /\ th[u].name = n
StopCalledOn(n) == \E u \in Callers : th[u].pc # "idle" /\ th[u].op = "stop" /\ th[u].name = n

\* C3: once start has recorded a child, is_running answers True as long as the
\* child lives and no stop is called; a refresh that finds the child ended
\* leaves the entry not running; and one exit is logged with its exit code
\* exactly once, however the monitor's ticks and the callers' is_running calls
\* interleave
C3_RunningUntilExitLoggedOnce ==
    /\ \A t \in Callers :
         (/\ Returned(t, "is_running")
          /\ th[t].e0.process # None /\ th[t].e0.is_running
          /\ Alive(th[t].e0.process)
          /\ ~StopCalledOn(th[t].name))
           => th[t].ret = "T"
    /\ (/\ th[Poller].pc = "us_next" /\ th[Poller].idx > 1
        /\ th[Poller].ir \in {"exited", "gone"}
        /\ ~CallerOn(th[Poller].name))
         => ~EntryOf(th[Poller].name).is_running
    /\ \A c \in ChildIds : exitEvents[c] <= 1
    /\ \A t \in Callers :
         (/\ Returned(t, "is_running") /\ th[t].ir \in {"exited", "gone"}
          /\ th[t].e0.process # None
          /\ th[Poller].pc \in {"idle", "us_next"}
          /\ \A u \in Callers \ {t} : th[u].pc = "idle")
           => exitEvents[th[t].e0.process] >= 1

\* C4: stop_program on a running entry always returns; it returns True by the
\* graceful or by the forced path, the entry then stopped and the child ended,
\* and False only when terminate() raised an OS error
C4_StopReturns ==
    /\ [](\A t \in SeqCallers :
            (Returned(t, "stop") /\ th[t].path \notin {"unknown", "notrunning"})
              => \/ /\ th[t].ret = "T" /\ th[t].path \in {"graceful", "forced"}
                    /\ Stopped(EntryOf(th[t].name))
                    /\ Dead(th[t].e0.process)
                 \/ th[t].ret = "F" /\ th[t].path = "oserror")
    /\ \A t \in SeqCallers :
         (th[t].op = "stop" /\ th[t].pc = "sp_term") ~> (th[t].pc = "done")

C4_Witness ==
    \E t \in SeqCallers :
      Returned(t, "stop") /\ th[t].path = "forced" /\ th[t].ret = "T" /\ th[t].sent

\* C5: when stop_program returns True for a running entry, by either path,
\* process, pid, is_running and start_time are all cleared and the child has ended
C5_StopClearsEntry ==
    \A t \in SeqCallers :
      (Returned(t, "stop") /\ th[t].ret = "T" /\ th[t].path \in {"graceful", "forced"})
        => /\ EntryOf(th[t].name) = NewProcessInfo
           /\ th[t].e0.process # None /\ Dead(th[t].e0.process)

C5_Witness ==
    \E t \in SeqCallers :
      /\ Returned(t, "stop") /\ th[t].ret = "T" /\ th[t].path = "graceful"
      /\ th[t].e0.start_time # None

\* C6: stop_program on a registered name that is not running (no handle, or
\* the flag False, when it is called) returns True, sends no signal and leaves
\* the entry stopped
C6_IdempotentStop ==
    \A t \in SeqCallers :
      (/\ Returned(t, "stop") /\ processes[th[t].name] # None
       /\ (th[t].e0.process = None \/ ~th[t].e0.is_running))
        => /\ th[t].ret = "T" /\ th[t].path = "notrunning" /\ ~th[t].sent
           /\ Stopped(EntryOf(th[t].name))

C6_Witness ==
    \E t \in SeqCallers :
      /\ Returned(t, "stop") /\ th[t].path = "notrunning"
      /\ processes[th[t].name] # None /\ th[t].e0.start_time = None /\ clock > 1

\* C7: stop_program for a name that has no key returns False in its one step
\* and changes neither the mapping, nor an entry, nor a child
C7_StopUnknown ==
    [][\A t \in SeqCallers :
         (th[t].pc = "sp_enter" /\ processes[th[t].name] = None /\ th'[t] # th[t])
           => /\ th'[t].pc = "done" /\ th'[t].ret = "F"
              /\ UNCHANGED <<processes, order, infos, nobj, children, nchild>>]_vars

C7_Witness ==
    \E t \in SeqCallers :
      Returned(t, "stop") /\ th[t].path = "unknown" /\ th[t].ret = "F"

\* C8: start_program whose working directory is missing returns False, runs
\* neither Popen nor the search-path probe, and the entry is stopped
C8_MissingWorkingDirectory ==
    \A t \in SeqCallers :
      (Returned(t, "start") /\ th[t].path = "wd")
        => /\ th[t].ret = "F" /\ ~th[t].spawned /\ ~th[t].probed
           /\ Stopped(EntryOf(th[t].name))

C8_Witness ==
    \E t \in SeqCallers :
      Returned(t, "start") /\ th[t].path = "wd" /\ processes[th[t].name] # None

C10_StopFailureKeepsState ==
    \A t \in SeqCallers :
      (Returned(t, "stop") /\ th[t].path = "oserror")
        => /\ th[t].ret = "F"
           /\ EntryOf(th[t].name) = th[t].e0
           /\ th[t].e0.process # None /\ th[t].e0.is_running
           /\ th[t].e0.pid = PidOf(th[t].e0.process)
           /\ th[t].e0.start_time # None

C10_Witness ==
    \E t \in SeqCallers :
      Returned(t, "stop") /\ th[t].path = "oserror" /\ Alive(th[t].e0.process)

\* C11: add_program for a name that was registered before the reload keeps the
\* runtime state: the entry it makes has the handle, pid, flag and start_time
\* the name's entry had, so a child running before is still tracked
C11_ReRegistrationKeepsState ==
    [][\A n \in Names :
         (processes[n] = None /\ processes'[n] # None /\ old_processes[n] # None)
           => infos'[processes'[n]] = infos[old_processes[n]]]_vars

\* no start_program of name n has come as far as Popen
NeverSpawned(n) == \A c \in ChildIds : children[c].name # n

\* C12: add_program makes the entry stopped; as long as no start of the name
\* has spawned, the entry stays as add_program made it and is_running answers
\* False; and the flag turns True only in line 94 of a start_program call,
\* which then returns True
C12_StoppedUntilStarted ==
    /\ [](\A n \in Registered : NeverSpawned(n) => EntryOf(n) = NewProcessInfo)
    /\ [](\A t \in Callers :
            (/\ Returned(t, "is_running") /\ processes[th[t].name] # None
             /\ NeverSpawned(th[t].name))
              => th[t].ret = "F")
    /\ [][\A n \in Names :
            (processes'[n] # processes[n] /\ processes'[n] # None)
              => infos'[processes'[n]] = NewProcessInfo]_vars
    /\ [][\A o \in ObjIds :
            (~infos[o].is_running /\ infos'[o].is_running)
              => \E t \in Callers :
                   /\ th[t].op = "start" /\ th[t].pc = "st_w3" /\ th[t].pi = o
                   /\ th'[t].pc = "st_w4"]_vars
    /\ [](\A t \in Callers : th[t].pc = "st_w4" => th[t].op = "start")
    /\ [][\A t \in Callers :
            (th[t].pc = "st_w4" /\ th'[t] # th[t])
              => th'[t].pc = "done" /\ th'[t].ret = "T"]_vars

C12_Witness ==
    \E t \in Callers :
      /\ Returned(t, "is_running") /\ th[t].ret = "F"
      /\ processes[th[t].name] # None /\ NeverSpawned(th[t].name)
      /\ \E n \in Registered : infos[processes[n]].is_running

\* a thread is inside start_program, stop_program or is_running for name n
InFlightOn(n) ==
    \E t \in Threads : th[t].pc \notin {"idle", "done", "us_next"} /\ th[t].name = n

\* handle, pid and flag of an entry agree
Consistent(e) ==
    /\ (e.process # None) <=> (e.pid # None)
    /\ (e.process # None) <=> e.is_running
    /\ e.process # None => e.pid = PidOf(e.process)

\* C13: whatever the interleaving of start_program, stop_program and is_running
\* on a name, by worker threads and the monitor thread, the entry is consistent
\* whenever none of them is inside a call on that name
C13_ConsistentWhenQuiet ==
    \A n \in Registered : ~InFlightOn(n) => Consistent(EntryOf(n))

\* C14: a monitor thread whose _stop_monitoring has returned begins no further
\* update_status and hands no further _update_all_status to the main loop,
\* whether the window then reloads its configuration or closes
C14_StoppedMonitorStaysQuiet ==
    [][\A p \in Pollers :
         monitors[p] = "stopped"
           => /\ ~(th[p].pc = "idle" /\ th'[p].pc = "us_next")
              /\ ~(th[p].pc = "us_next" /\ th'[p].pc = "idle")]_vars

\* C15: when _on_closing has finished, every entry is stopped and no child
\* that start_program spawned is alive
C15_ShutdownStopsEverything ==
    phase = "closed"
      => /\ \A n \in Registered : Stopped(EntryOf(n))
         /\ \A c \in ChildIds : ~Alive(c)

\* the step in which is_running ends for thread t because its liveness check
\* raised
CheckRaised(t) ==
    /\ th[t].pc \in {"ir_poll", "ir_ps"}
    /\ th'[t].pc \notin {"ir_poll", "ir_ps"}
    /\ th'[t].ir = "raised"

\* C16: a liveness check that raises is caught inside is_running: the call
\* returns False to its caller and writes nothing, update_status goes on with
\* the next name, and it ends only when every name has been visited
C16_CheckFailureContained ==
    /\ [](\A t \in SeqCallers :
            (Returned(t, "is_running") /\ th[t].ir = "raised") => th[t].ret = "F")
    /\ [][\A t \in FaultCheckers :
            CheckRaised(t)
              => /\ UNCHANGED <<processes, order, infos, children>>
                 /\ th[t].op = "is_running" => th'[t].pc = "done" /\ th'[t].ret = "F"
                 /\ th[t].op = "start" => th'[t].pc = "st_check"
                 /\ th[t].op = "update_status"
                      => th'[t].pc = "us_next" /\ th'[t].idx = th[t].idx + 1]_vars
    /\ [][(th[Poller].pc = "us_next" /\ th'[Poller].pc # "us_next")
            => IF th[Poller].idx <= Len(order)
                 THEN /\ th'[Poller].pc = "ir_enter"
                      /\ th'[Poller].name = order[th[Poller].idx]
                 ELSE th'[Poller].pc = "idle"]_vars

C16_Witness ==
    /\ th[Poller].op = "update_status" /\ th[Poller].ir = "raised"
    /\ th[Poller].pc = "ir_enter" /\ th[Poller].idx = 2
    /\ Alive(EntryOf(order[1]).process)

\* C17: start_program asks poll(), not the cached flag: when the recorded
\* child has ended the poll inside start_program says so whatever the flag,
\* the "already running" return is taken only after a check that found the
\* child alive, and a start that found it ended and succeeds has spawned a new
\* child and recorded its handle, its pid, the flag True and a later start_time
C17_StartRechecksLiveness ==
    /\ [][\A t \in SeqCallers :
            (/\ th[t].op = "start" /\ th[t].pc = "ir_poll"
             /\ infos[th[t].pi].process # None /\ Dead(infos[th[t].pi].process)
             /\ th'[t] # th[t])
              => th'[t].pc = "ir_w1"]_vars
    /\ [](\A t \in SeqCallers :
            (Returned(t, "start") /\ th[t].path = "already") => th[t].ir = "alive")
    /\ [](\A t \in SeqCallers :
            (/\ Returned(t, "start") /\ th[t].ir \in {"exited", "gone"}
             /\ th[t].e0.process # None /\ th[t].e0.is_running)
              => /\ th[t].path # "already"
                 /\ th[t].ret = "T"
                      => /\ th[t].path = "spawned" /\ th[t].spawned
                         /\ th[t].proc # th[t].e0.process
                         /\ EntryOf(th[t].name).process = th[t].proc
                         /\ EntryOf(th[t].name).pid = PidOf(th[t].proc)
                         /\ EntryOf(th[t].name).is_running
                         /\ EntryOf(th[t].name).start_time > th[t].e0.start_time)

C17_Witness ==
    \E t \in SeqCallers :
      /\ Returned(t, "start") /\ th[t].ret = "T" /\ th[t].path = "spawned"
      /\ th[t].ir = "exited"
      /\ th[t].e0.process # None /\ th[t].e0.is_running /\ th[t].e0.start_time # None

\* the child behind the handle of the entry thread t works on
HandleOf(t) == infos[th[t].pi].process

\* C18: kill() reaches a child only from line 131 of a stop_program that has
\* sent terminate() to that same child and whose wait(timeout=3) ran out with
\* the child alive; a wait that finds the child ended goes to the clearing,
\* not to kill()
C18_EscalationOrder ==
    /\ [][\A c \in ChildIds :
            (children[c].sig # "kill" /\ children'[c].sig = "kill")
              => /\ Alive(c) /\ children[c].sig = "term"
                 /\ \E t \in SeqCallers :
                      /\ th[t].op = "stop" /\ th[t].pc = "sp_kill" /\ th[t].sent
                      /\ HandleOf(t) = c /\ th[t].e0.process = c
                      /\ th'[t].pc = "sp_kwait"]_vars
    /\ [][\A t \in SeqCallers :
            (th[t].pc # "sp_kill" /\ th'[t].pc = "sp_kill")
              => /\ th[t].pc = "sp_wait" /\ th[t].sent
                 /\ Alive(HandleOf(t)) /\ children[HandleOf(t)].sig = "term"]_vars
    /\ [][\A t \in SeqCallers :
            (th[t].pc = "sp_wait" /\ Dead(HandleOf(t)) /\ th'[t] # th[t])
              => /\ th'[t].pc = "sp_c1" /\ th'[t].path = "graceful"
                 /\ children' = children]_vars

C18_Witness ==
    \E t \in SeqCallers :
      /\ th[t].op = "stop" /\ th[t].pc = "sp_kwait" /\ th[t].sent
      /\ Alive(HandleOf(t)) /\ children[HandleOf(t)].sig = "kill"

\* the registered names whose entry holds the handle of child c
TrackedBy(c) == {n \in Registered : EntryOf(n).process = c}

\* C19: whenever no call is in flight every live child is the handle of exactly
\* one entry, and a start_program that returned False has left no child of its
\* own alive
C19_NoOrphans ==
    /\ (\A t \in Threads : th[t].pc \in {"idle", "done"})
         => \A c \in ChildIds : Alive(c) => Cardinality(TrackedBy(c)) = 1
    /\ \A t \in SeqCallers :
         (Returned(t, "start") /\ th[t].ret = "F" /\ th[t].spawned)
           => ~Alive(th[t].proc)

\* C20: what is_running returns for a registered name is what the entry says
\* when it returns: False with the entry stopped, True with a handle and the
\* flag True, also when the liveness check raised
C20_ReturnAgreesWithState ==
    \A t \in SeqCallers :
      (Returned(t, "is_running") /\ processes[th[t].name] # None)
        => /\ th[t].ret = "F" => Stopped(EntryOf(th[t].name))
           /\ th[t].ret = "T" => /\ EntryOf(th[t].name).process # None
                                 /\ EntryOf(th[t].name).is_running

\* the monitor threads that are inside monitor() and find self.monitoring True
ActiveMonitors == {p \in Pollers : MonitorLives(p) /\ monitoring}

\* C21: whatever loads and reloads went before, at most one monitor thread is
\* active, and exactly one while the window takes commands
C21_OneActiveMonitor ==
    /\ Cardinality(ActiveMonitors) <= 1
    /\ phase = "run" => Cardinality(ActiveMonitors) = 1

\* the entry as a finished start_program leaves it: the child is recorded, the
\* flag is True and no start is still writing
Recorded(e) ==
    /\ e.process # None /\ e.pid = PidOf(e.process)
    /\ e.is_running /\ e.start_time # None

\* C22: a stop_program called on a recorded, running entry, whose terminate()
\* has reached the live child, returns True however the monitor's is_running
\* of the same name is interleaved; the child has then ended, and the entry is
\* stopped once no call on the name is in flight
C22_StopDespiteRefresh ==
    \A t \in Callers :
      (Returned(t, "stop") /\ Recorded(th[t].e0) /\ th[t].sent)
        => /\ th[t].ret = "T"
           /\ Dead(th[t].e0.process)
           /\ ~InFlightOn(th[t].name) => Stopped(EntryOf(th[t].name))

====
